---- MODULE Spec2Model ----
(***************************************************************************)
(* bin_packer.py: BinItem / BinContainer / BinManager.                     *)
(*                                                                         *)
(* One behaviour is one call of BinManager.order_sequentially or           *)
(* BinManager.evenly_distribute on an item list, a list of bin container   *)
(* sizes and a sort direction.  Python lists are 0-based; the sequences    *)
(* below are 1-based, and the index variables (bin_count, cidx, nidx)      *)
(* keep their Python values, so list[i] is written seq[i + 1].             *)
(***************************************************************************)
EXTENDS Integers, Sequences, FiniteSets, TLC

\* ---------------------------------------------------------------- bounds
MaxItems == 3      \* longest item list
MaxSize  == 2      \* largest unit height of an item
MaxBins  == 3      \* longest list of bin sizes
MaxCap   == 3      \* largest bin size

VARIABLES
    values,             \* argument: the bin items (BinItem is an int)
    bin_sizes,          \* argument: the bin container sizes
    large_items_at_top, \* argument: sort direction
    policy,             \* which method was called
    pc,                 \* position in the called method
    unit_height_sum,    \* compute_bin_count local
    bin_count,          \* compute_bin_count local, then the caller's local
    container_sum,      \* compute_bin_count local
    bin_list,           \* the BinContainer objects
    value_sets,         \* result of split_values_by_size
    set_pos,            \* outer for-loop: index of the current value_set (1-based)
    item_pos,           \* inner for-loop: index of the next item in it (1-based)
    cidx,               \* container index
    nidx,               \* evenly_distribute placement counter
    offered,            \* history: one record per can_add_to_bin call
    skipped,            \* history: items named by the "Item skipped" message
    error               \* where an IndexError was raised, or "none"

vars == << values, bin_sizes, large_items_at_top, policy, pc, unit_height_sum,
           bin_count, container_sum, bin_list, value_sets, set_pos, item_pos,
           cidx, nidx, offered, skipped, error >>

\* ------------------------------------------------------- pure functions

\* All sequences of length 0..n over S.
SeqsUpTo(S, n) == UNION { [1..k -> S] : k \in 0..n }

\* Python's builtin sum() over a list.
RECURSIVE sum(_)
sum(s) == IF s = << >> THEN 0 ELSE s[1] + sum(Tail(s))

\* Position of x in the ordered list s when sorted(): after every element
\* that does not have to come behind it (stable insertion).
RECURSIVE insert_sorted(_, _, _)
insert_sorted(s, x, reverse) ==
    IF s = << >> THEN << x >>
    ELSE IF (IF reverse THEN x > s[1] ELSE x < s[1])
         THEN << x >> \o s
         ELSE << s[1] >> \o insert_sorted(Tail(s), x, reverse)

\* sorted(values, reverse=large_values_first)
RECURSIVE sorted_from(_, _, _)
sorted_from(s, acc, reverse) ==
    IF s = << >> THEN acc
    ELSE sorted_from(Tail(s), insert_sorted(acc, s[1], reverse), reverse)

sorted(s, reverse) == sorted_from(s, << >>, reverse)

\* ary.append(item), ary being the last list of sets (ary aliases it).
append_to_last(sets, item) ==
    [sets EXCEPT ![Len(sets)] = Append(@, item)]

\* Variant of the loop body: compares with >= instead of ==.
RECURSIVE split_walk_ge(_, _, _, _)
split_walk_ge(sorted_list, k, val, sets) ==
    IF k > Len(sorted_list) THEN sets
    ELSE LET item == sorted_list[k] IN
         IF val >= item
         THEN split_walk_ge(sorted_list, k + 1, val, append_to_last(sets, item))
         ELSE split_walk_ge(sorted_list, k + 1, item, Append(sets, << item >>))

\* Variant of the loop body: val is not updated when a new set is started.
RECURSIVE split_walk_stale(_, _, _, _)
split_walk_stale(sorted_list, k, val, sets) ==
    IF k > Len(sorted_list) THEN sets
    ELSE LET item == sorted_list[k] IN
         IF val = item
         THEN split_walk_stale(sorted_list, k + 1, val, append_to_last(sets, item))
         ELSE split_walk_stale(sorted_list, k + 1, val, Append(sets, << item >>))

\* The for-loop of split_values_by_size from its k-th item on.
RECURSIVE split_walk(_, _, _, _)
split_walk(sorted_list, k, val, sets) ==
    IF k > Len(sorted_list) THEN sets
    ELSE LET item == sorted_list[k] IN
         IF val = item
         THEN split_walk(sorted_list, k + 1, val, append_to_last(sets, item))
         ELSE split_walk(sorted_list, k + 1, item, Append(sets, << item >>))

\* BinManager.split_values_by_size
split_values_by_size(vals, large_values_first) ==
    IF Len(vals) < 1 THEN << >>
    ELSE LET sorted_list == sorted(vals, large_values_first)
         IN  split_walk(sorted_list, 1, sorted_list[1], << << >> >>)

\* BinContainer.__init__
BinContainer(index, size) ==
    [index |-> index, size |-> size, count |-> 0, items |-> << >>]

\* Variant of append: the item is put in front of the list.
append_front(bin, item) ==
    [bin EXCEPT !.items = << item >> \o @, !.count = @ + item]

\* BinContainer.append
append(bin, item) ==
    [bin EXCEPT !.items = Append(@, item), !.count = @ + item]

\* Variant of can_add_to_bin: strict comparison.
can_add_to_bin_lt(bin_container, item) ==
    bin_container.count + item < bin_container.size

\* Variant of can_add_to_bin: the item's size is left out.
can_add_to_bin_noitem(bin_container, item) ==
    bin_container.count <= bin_container.size

\* BinManager.can_add_to_bin
can_add_to_bin(bin_container, item) ==
    bin_container.count + item <= bin_container.size

\* Variant of the while condition: <= instead of <.
walk_continues_le(csum, usum) == csum <= usum

\* The while condition of compute_bin_count.
walk_continues(csum, usum) == csum < usum

\* Variant of the target index: counter taken after the increment.
target_bin_next(n, count) == (n + 1) % count

\* cidx = nidx % bin_count
target_bin(n, count) == n % count

\* list[i] for a 0-based i >= 0 raises IndexError unless i < len(list).
in_range(list, i) == i < Len(list)

\* The nested for-loops: the first position at or after (s, i) that holds an
\* item, or a position behind the last set when the loops are exhausted.
RECURSIVE next_pos(_, _, _)
next_pos(sets, s, i) ==
    IF s > Len(sets) THEN << s, 1 >>
    ELSE IF i <= Len(sets[s]) THEN << s, i >>
         ELSE next_pos(sets, s + 1, 1)

loops_done == set_pos > Len(value_sets)
item == value_sets[set_pos][item_pos]

\* The arguments of one can_add_to_bin call: the item and the bin as it was.
offer(it, bin) ==
    [item |-> it, bin |-> bin.index, count |-> bin.count, size |-> bin.size]

\* ------------------------------------------------------------------ Init

Init ==
    /\ values \in SeqsUpTo(1..MaxSize, MaxItems)
    /\ bin_sizes \in SeqsUpTo(1..MaxCap, MaxBins)
    /\ large_items_at_top \in BOOLEAN
    /\ policy \in {"order_sequentially", "evenly_distribute"}
    /\ pc = "call"
    /\ unit_height_sum = 0
    /\ bin_count = 0
    /\ container_sum = 0
    /\ bin_list = << >>
    /\ value_sets = << >>
    /\ set_pos = 1
    /\ item_pos = 1
    /\ cidx = 0
    /\ nidx = 0
    /\ offered = << >>
    /\ skipped = << >>
    /\ error = "none"

\* --------------------------------------------------- compute_bin_count

\* Entry of compute_bin_count: the sum and the two counters.
ComputeEnter ==
    /\ pc = "call"
    /\ unit_height_sum' = sum(values)
    /\ bin_count' = 0
    /\ container_sum' = 0
    /\ pc' = "walk"
    /\ UNCHANGED << values, bin_sizes, large_items_at_top, policy, bin_list,
                    value_sets, set_pos, item_pos, cidx, nidx, offered,
                    skipped, error >>

\* One iteration of the while loop.
WalkStep ==
    /\ pc = "walk"
    /\ walk_continues(container_sum, unit_height_sum)
    /\ in_range(bin_sizes, bin_count)
    /\ container_sum' = container_sum + bin_sizes[bin_count + 1]
    /\ bin_count' = bin_count + 1
    /\ UNCHANGED << values, bin_sizes, large_items_at_top, policy, pc,
                    unit_height_sum, bin_list, value_sets, set_pos, item_pos,
                    cidx, nidx, offered, skipped, error >>

\* Variant of WalkRaise: the walk stops at the end of the list and returns.
WalkClamp ==
    /\ pc = "walk"
    /\ walk_continues(container_sum, unit_height_sum)
    /\ ~ in_range(bin_sizes, bin_count)
    /\ pc' = "counted"
    /\ UNCHANGED << values, bin_sizes, large_items_at_top, policy,
                    unit_height_sum, bin_count, container_sum, bin_list,
                    value_sets, set_pos, item_pos, cidx, nidx, offered,
                    skipped, error >>

\* bin_sizes[bin_count] behind the end of the list: IndexError, not caught by
\* compute_bin_count nor by its caller.
WalkRaise ==
    /\ pc = "walk"
    /\ walk_continues(container_sum, unit_height_sum)
    /\ ~ in_range(bin_sizes, bin_count)
    /\ pc' = "IndexError"
    /\ error' = "compute_bin_count"
    /\ UNCHANGED << values, bin_sizes, large_items_at_top, policy,
                    unit_height_sum, bin_count, container_sum, bin_list,
                    value_sets, set_pos, item_pos, cidx, nidx, offered,
                    skipped >>

\* The while condition fails: compute_bin_count returns bin_count.
WalkReturn ==
    /\ pc = "walk"
    /\ ~ walk_continues(container_sum, unit_height_sum)
    /\ pc' = "counted"
    /\ UNCHANGED << values, bin_sizes, large_items_at_top, policy,
                    unit_height_sum, bin_count, container_sum, bin_list,
                    value_sets, set_pos, item_pos, cidx, nidx, offered,
                    skipped, error >>

\* ------------------------------------------ setup shared by both policies

\* bin_list = [ BinContainer(i, bin_sizes[i]) for i in range(bin_count) ]
Allocate ==
    /\ pc = "counted"
    /\ bin_list' = [i \in 1..bin_count |-> BinContainer(i - 1, bin_sizes[i])]
    /\ pc' = "allocated"
    /\ UNCHANGED << values, bin_sizes, large_items_at_top, policy,
                    unit_height_sum, bin_count, container_sum, value_sets,
                    set_pos, item_pos, cidx, nidx, offered, skipped, error >>

\* value_sets = split_values_by_size(...); cidx = 0 (nidx = 0); the for-loops
\* are entered.
Split ==
    /\ pc = "allocated"
    /\ value_sets' = split_values_by_size(values, large_items_at_top)
    /\ cidx' = 0
    /\ nidx' = 0
    /\ set_pos' = next_pos(value_sets', 1, 1)[1]
    /\ item_pos' = next_pos(value_sets', 1, 1)[2]
    /\ pc' = "place"
    /\ UNCHANGED << values, bin_sizes, large_items_at_top, policy,
                    unit_height_sum, bin_count, container_sum, bin_list,
                    offered, skipped, error >>

\* The for-loops move to the next item.
Advance ==
    /\ set_pos' = next_pos(value_sets, set_pos, item_pos + 1)[1]
    /\ item_pos' = next_pos(value_sets, set_pos, item_pos + 1)[2]

\* ---------------------------------------------------- order_sequentially

\* The item fits the current bin.
SeqFit ==
    /\ pc = "place" /\ policy = "order_sequentially" /\ ~ loops_done
    /\ in_range(bin_list, cidx)
    /\ can_add_to_bin(bin_list[cidx + 1], item)
    /\ offered' = Append(offered, offer(item, bin_list[cidx + 1]))
    /\ bin_list' = [bin_list EXCEPT ![cidx + 1] = append(@, item)]
    /\ Advance
    /\ UNCHANGED << values, bin_sizes, large_items_at_top, policy, pc,
                    unit_height_sum, bin_count, container_sum, value_sets,
                    cidx, nidx, skipped, error >>

\* The item does not fit: the cursor moves on and the item is appended to the
\* next bin without a test.
SeqAdvance ==
    /\ pc = "place" /\ policy = "order_sequentially" /\ ~ loops_done
    /\ in_range(bin_list, cidx)
    /\ ~ can_add_to_bin(bin_list[cidx + 1], item)
    /\ in_range(bin_list, cidx + 1)
    /\ offered' = Append(offered, offer(item, bin_list[cidx + 1]))
    /\ cidx' = cidx + 1
    /\ bin_list' = [bin_list EXCEPT ![cidx + 2] = append(@, item)]
    /\ Advance
    /\ UNCHANGED << values, bin_sizes, large_items_at_top, policy, pc,
                    unit_height_sum, bin_count, container_sum, value_sets,
                    nidx, skipped, error >>

\* The item does not fit and there is no next bin: bin_list[cidx] raises.
SeqRaise ==
    /\ pc = "place" /\ policy = "order_sequentially" /\ ~ loops_done
    /\ in_range(bin_list, cidx)
    /\ ~ can_add_to_bin(bin_list[cidx + 1], item)
    /\ ~ in_range(bin_list, cidx + 1)
    /\ offered' = Append(offered, offer(item, bin_list[cidx + 1]))
    /\ cidx' = cidx + 1
    /\ pc' = "IndexError"
    /\ error' = "order_sequentially"
    /\ UNCHANGED << values, bin_sizes, large_items_at_top, policy,
                    unit_height_sum, bin_count, container_sum, bin_list,
                    value_sets, set_pos, item_pos, nidx, skipped >>

\* ----------------------------------------------------- evenly_distribute

\* The item fits the bin its counter value selects.
EvenFit ==
    /\ pc = "place" /\ policy = "evenly_distribute" /\ ~ loops_done
    /\ LET c == target_bin(nidx, bin_count) IN
        /\ can_add_to_bin(bin_list[c + 1], item)
        /\ cidx' = c
        /\ offered' = Append(offered, offer(item, bin_list[c + 1]))
        /\ bin_list' = [bin_list EXCEPT ![c + 1] = append(@, item)]
    /\ nidx' = nidx + 1
    /\ Advance
    /\ UNCHANGED << values, bin_sizes, large_items_at_top, policy, pc,
                    unit_height_sum, bin_count, container_sum, value_sets,
                    skipped, error >>

\* The item does not fit: the message is printed and the item is left out.
EvenSkip ==
    /\ pc = "place" /\ policy = "evenly_distribute" /\ ~ loops_done
    /\ LET c == target_bin(nidx, bin_count) IN
        /\ ~ can_add_to_bin(bin_list[c + 1], item)
        /\ cidx' = c
        /\ offered' = Append(offered, offer(item, bin_list[c + 1]))
        /\ skipped' = Append(skipped, item)
    /\ nidx' = nidx + 1
    /\ Advance
    /\ UNCHANGED << values, bin_sizes, large_items_at_top, policy, pc,
                    unit_height_sum, bin_count, container_sum, bin_list,
                    value_sets, error >>

\* return bin_list
Return ==
    /\ pc = "place" /\ loops_done
    /\ pc' = "done"
    /\ UNCHANGED << values, bin_sizes, large_items_at_top, policy,
                    unit_height_sum, bin_count, container_sum, bin_list,
                    value_sets, set_pos, item_pos, cidx, nidx, offered,
                    skipped, error >>

Next ==
    \/ ComputeEnter
    \/ WalkStep
    \/ WalkRaise
    \/ WalkReturn
    \/ Allocate
    \/ Split
    \/ SeqFit
    \/ SeqAdvance
    \/ SeqRaise
    \/ EvenFit
    \/ EvenSkip
    \/ Return

Spec == Init /\ [][Next]_vars

\* ------------------------------------------------- vocabulary of the claims

SEQ == "order_sequentially"
EVEN == "evenly_distribute"

\* compute_bin_count has returned to its caller.
Counted == pc \in {"counted", "allocated", "place", "done"} \/ error = SEQ

\* split_values_by_size has returned to its caller.
Grouped == pc \in {"place", "done"} \/ error = SEQ

\* Sum of the first n entries of caps.
PrefixSum(caps, n) == sum(SubSeq(caps, 1, n))

\* The lists of a list of lists, one after the other.
RECURSIVE Flatten(_)
Flatten(ss) == IF ss = << >> THEN << >> ELSE ss[1] \o Flatten(Tail(ss))

\* How often x occurs in s.
Count(s, x) == Cardinality({ i \in DOMAIN s : s[i] = x })

\* s and t hold the same items, each as often.
SameItems(s, t) ==
    /\ Len(s) = Len(t)
    /\ \A i \in DOMAIN s : Count(s, s[i]) = Count(t, s[i])

\* s is in the requested order.
Ordered(s, descending) ==
    \A i \in 1..(Len(s) - 1) :
        IF descending THEN s[i] >= s[i + 1] ELSE s[i] <= s[i + 1]

\* The items of a log of can_add_to_bin calls.
ItemsOf(log) == [k \in 1..Len(log) |-> log[k].item]

\* The call was made with an item that fits the bin.
Fits(o) == o.count + o.item <= o.size

\* The items of all bins, in bin-index order.
Placed == Flatten([i \in 1..Len(bin_list) |-> bin_list[i].items])

\* ------------------------------------------------------------------ claims

\* C1: whenever compute_bin_count returns, bin_count is the smallest n whose
\* first n bin sizes sum to at least the sum of the items; for an empty item
\* list the while loop is never entered and 0 is returned.
C1_SmallestPrefix ==
    /\ Counted =>
        /\ bin_count \in 0..Len(bin_sizes)
        /\ PrefixSum(bin_sizes, bin_count) >= sum(values)
        /\ \A m \in 0..(bin_count - 1) : PrefixSum(bin_sizes, m) < sum(values)
    /\ values = << >> => bin_count = 0 /\ container_sum = 0

C1_Witness ==
    /\ pc = "counted"
    /\ bin_count = 2
    /\ Len(bin_sizes) = 3
    /\ bin_sizes[1] < sum(values)

\* C2: under either policy every bin has count <= size in every state.
C2_BinInvariant ==
    \A i \in DOMAIN bin_list : bin_list[i].count <= bin_list[i].size

\* C3: order_sequentially never drops, duplicates or reorders an item: the
\* cursor cidx only moves forward, and when the method returns the bins' item
\* lists, concatenated in bin-index order, are the grouped item sequence, which
\* is the input in the requested order, so the placed sizes sum to the input's.
C3_SequentialKeepsItems ==
    /\ [](policy = SEQ /\ pc = "done" =>
            /\ Placed = Flatten(value_sets)
            /\ Ordered(Placed, large_items_at_top)
            /\ SameItems(Placed, values)
            /\ sum([i \in 1..Len(bin_list) |-> bin_list[i].count]) = sum(values))
    /\ [][policy = SEQ => cidx' >= cidx]_vars

C3_Witness ==
    /\ policy = SEQ /\ pc = "done"
    /\ Len(values) = 3
    /\ cidx >= 1
    /\ \E i \in DOMAIN bin_list : Len(bin_list[i].items) = 2
    /\ \E i, j \in DOMAIN values : values[i] # values[j]

\* C4: evenly_distribute offers every item once; an item is skipped exactly
\* when it did not fit the bin it was offered to at that moment, and is placed
\* in that bin otherwise; so at the end placed and skipped items together are
\* the input items and their sizes add up to the input's.
C4_PlacedOrDropped ==
    policy = EVEN =>
        /\ skipped = ItemsOf(SelectSeq(offered, LAMBDA o : ~ Fits(o)))
        /\ \A i \in DOMAIN bin_list :
              bin_list[i].items =
                  ItemsOf(SelectSeq(offered,
                                    LAMBDA o : o.bin = i - 1 /\ Fits(o)))
        /\ pc = "done" =>
              /\ ItemsOf(offered) = Flatten(value_sets)
              /\ SameItems(Placed \o skipped, values)
              /\ sum(Placed) + sum(skipped) = sum(values)

C4_Witness ==
    /\ policy = EVEN /\ pc = "done"
    /\ skipped # << >>
    /\ Len(Placed) = 2
    /\ \E j, k \in DOMAIN offered :
          j < k /\ ~ Fits(offered[j]) /\ Fits(offered[k])

\* C5: in evenly_distribute the k-th item of the grouped order (0-indexed) is
\* offered to bin k mod bin_count and to no other, whether or not earlier
\* items were skipped, and nidx counts every item offered.
C5_RoundRobinOrder ==
    policy = EVEN /\ Grouped =>
        /\ nidx = Len(offered)
        /\ Len(offered) <= Len(Flatten(value_sets))
        /\ \A k \in DOMAIN offered :
              /\ offered[k].item = Flatten(value_sets)[k]
              /\ offered[k].bin = (k - 1) % bin_count
        /\ pc = "done" => Len(offered) = Len(values)

C5_Witness ==
    /\ policy = EVEN /\ pc = "done"
    /\ bin_count >= 2
    /\ Len(offered) = 3
    /\ ~ Fits(offered[1])
    /\ Fits(offered[3])

\* C6: when the bin sizes sum to at least the item sizes, no IndexError is
\* raised by compute_bin_count, order_sequentially or evenly_distribute.
C6_NoIndexErrorWhenSufficient ==
    sum(bin_sizes) >= sum(values) => pc # "IndexError"

\* C7: when the bin sizes sum to less than the item sizes, the while loop of
\* compute_bin_count never ends normally: it raises IndexError at the end of
\* bin_sizes, before any bin is created or any item offered, and the caller
\* never returns a bin list.
C7_InsufficientCapacityRaises ==
    sum(bin_sizes) < sum(values) =>
        /\ pc \in {"call", "walk", "IndexError"}
        /\ pc = "walk" => container_sum < unit_height_sum
        /\ pc = "IndexError" =>
              error = "compute_bin_count" /\ bin_count = Len(bin_sizes)
        /\ bin_list = << >> /\ offered = << >> /\ value_sets = << >>

C7_Witness ==
    /\ pc = "IndexError"
    /\ error = "compute_bin_count"
    /\ bin_count = 2
    /\ policy = EVEN

\* C8: every group returned by split_values_by_size is non-empty with all
\* elements equal, and splitting a single group again, in either direction,
\* gives that group alone.
C8_RegroupingIsIdentity ==
    Grouped =>
        \A g \in DOMAIN value_sets :
            /\ value_sets[g] # << >>
            /\ \A i \in DOMAIN value_sets[g] : value_sets[g][i] = value_sets[g][1]
            /\ \A d \in BOOLEAN :
                  split_values_by_size(value_sets[g], d) = << value_sets[g] >>

C8_Witness ==
    /\ pc = "place"
    /\ large_items_at_top
    /\ Len(value_sets) = 2
    /\ Len(value_sets[1]) = 2

\* C9: the groups' values are strictly decreasing (large values first) or
\* strictly increasing across consecutive groups; the groups concatenated are
\* the input in that order, no item lost or added; an empty input gives no
\* group at all.
C9_GroupsMonotone ==
    Grouped =>
        /\ \A g \in DOMAIN value_sets : value_sets[g] # << >>
        /\ \A g \in 1..(Len(value_sets) - 1) :
              IF large_items_at_top
              THEN value_sets[g][1] > value_sets[g + 1][1]
              ELSE value_sets[g][1] < value_sets[g + 1][1]
        /\ Ordered(Flatten(value_sets), large_items_at_top)
        /\ SameItems(Flatten(value_sets), values)
        /\ values = << >> => Len(value_sets) = 0

C9_Witness ==
    /\ Grouped
    /\ ~ large_items_at_top
    /\ Len(values) = 3
    /\ values[1] > values[2]
    /\ Len(value_sets) = 2

\* C10: in order_sequentially the append after a cursor advance lands in a bin
\* that is still empty, bins behind the cursor are never changed again, and a
\* bin has count > size only if it holds a single item larger than the bin.
C10_ForcedAppendIntoEmptyBin ==
    /\ [](policy = SEQ =>
            \A i \in DOMAIN bin_list :
                bin_list[i].count > bin_list[i].size =>
                    /\ Len(bin_list[i].items) = 1
                    /\ bin_list[i].items[1] > bin_list[i].size)
    /\ [][policy = SEQ /\ pc = "place" =>
            /\ (cidx' # cidx /\ pc' # "IndexError") =>
                  /\ bin_list[cidx' + 1].count = 0
                  /\ bin_list[cidx' + 1].items = << >>
                  /\ bin_list'[cidx' + 1].items = << item >>
            /\ \A i \in DOMAIN bin_list :
                  i - 1 < cidx' => bin_list'[i] = bin_list[i]]_vars

C10_Witness ==
    /\ policy = SEQ /\ pc = "done"
    /\ cidx = 2
    /\ bin_list[1].items # << >>
    /\ bin_list[2].count > bin_list[2].size

====
